---- MODULE Spec2Model ----
(***************************************************************************)
(* nespal: palette decoding, nearest-colour search, palette verification,  *)
(* identification over a candidate list, and remapping with output         *)
(* encoding selected by file extension.                                     *)
(*                                                                          *)
(* Strings that the code inspects character by character (paths, file      *)
(* names) are sequences of one-character strings.  A color.RGBA is a       *)
(* record [R, G, B, A] of 8-bit values; a color.Palette is a sequence of   *)
(* them, the nil palette being the empty sequence.                         *)
(***************************************************************************)
EXTENDS Integers, Sequences, FiniteSets, TLC

VARIABLES
    op,           \* the operation running: "identify" or "remap"
    pc,           \* position inside the operation
    img,          \* the decoded source image
    custom_pals,  \* identify: the opened custom palette files, each with its read offset
    custom_only,  \* identify: the --custom-only flag
    entries,      \* identify: the embedded "palettes" directory, each file with its read offset
    dir_read,     \* identify: fs.ReadDir(palettes, "palettes") has been called
    idx,          \* identify: index of the candidate the current loop is at
    tested,       \* identify: the load_palette / has_palette calls made so far, in order
    stdout,       \* identify: the lines printed
    pal,          \* remap: the palette reader, with its read offset
    dst_path,     \* remap: the output path
    creatable,    \* remap: whether os.Create(dst_path) succeeds
    p,            \* remap: the decoded palette
    remappedf,    \* remap: the output file
    remapped,     \* remap: the output grid
    ret           \* what the operation returned (or that it panicked)

vars == <<op, pc, img, custom_pals, custom_only, entries, dir_read, idx, tested,
          stdout, pal, dst_path, creatable, p, remappedf, remapped, ret>>

identifyVars == <<custom_pals, custom_only, entries, dir_read, idx, tested, stdout>>
remapVars == <<pal, dst_path, creatable, p, remappedf, remapped>>

(***************************************************************************)
(* Bounds of the model.                                                    *)
(***************************************************************************)
MaxW == 2          \* image widths 1..MaxW
MaxH == 2          \* image heights 1..MaxH
MaxExtra == 2      \* bytes a palette source may hold after the 192nd
MaxCustom == 2     \* custom palettes given to identify
MaxBuiltin == 2    \* entries of the embedded palette directory

(***************************************************************************)
(* Byte sources and load_palette.                                          *)
(***************************************************************************)
PALETTE_SIZE == 64

\* A byte source of n bytes repeating the pattern base.
Repeat(base, n) == [k \in 1..n |-> base[((k - 1) % Len(base)) + 1]]

Reader(name, bytes) == [name |-> name, bytes |-> bytes, pos |-> 0]

\* Mutant of ReadFull: a single Read, whose short count is not an error.
ReadFull_noShortError(r, n) ==
    LET avail == Len(r.bytes) - r.pos
        k == IF avail >= n THEN n ELSE avail
    IN [data |-> SubSeq(r.bytes, r.pos + 1, r.pos + k) \o [j \in 1..(n - k) |-> 0],
        err |-> "nil", pos |-> r.pos + k]

\* io.ReadFull(r, buf) with len(buf) = n: Read is called until n bytes are in
\* buf or the source is exhausted; never asks for more than n bytes.
ReadFull(r, n) ==
    LET avail == Len(r.bytes) - r.pos IN
    IF avail >= n
    THEN [data |-> SubSeq(r.bytes, r.pos + 1, r.pos + n), err |-> "nil", pos |-> r.pos + n]
    ELSE [data |-> SubSeq(r.bytes, r.pos + 1, Len(r.bytes)) \o [k \in 1..(n - avail) |-> 0],
          err |-> IF avail = 0 THEN "EOF" ELSE "unexpected EOF",
          pos |-> Len(r.bytes)]

\* for i := range PALETTE_SIZE { palette[i] = color.RGBA{data[i*3], data[i*3+1], data[i*3+2], 255} }
\* (i counts from 0 as in the code; sequences here are indexed from 1)
RECURSIVE load_palette_loop(_, _, _)
load_palette_loop(data, i, palette) ==
    IF i >= PALETTE_SIZE THEN palette
    ELSE load_palette_loop(data, i + 1,
            Append(palette, [R |-> data[i * 3 + 1], G |-> data[i * 3 + 2],
                             B |-> data[i * 3 + 3], A |-> 255]))

\* load_palette(pal): the palette (nil = <<>>), the error, and the reader's new offset.
load_palette(r) ==
    LET rd == ReadFull(r, PALETTE_SIZE * 3) IN
    IF rd.err # "nil"
    THEN [palette |-> <<>>, err |-> rd.err, pos |-> rd.pos]
    ELSE [palette |-> load_palette_loop(rd.data, 0, <<>>), err |-> "nil", pos |-> rd.pos]

(***************************************************************************)
(* Colours and find_closest.                                               *)
(***************************************************************************)
\* color.RGBA.RGBA(): each 8-bit channel v widened to 16 bits as v | v<<8.
RGBA(c) == [r |-> c.R * 256 + c.R, g |-> c.G * 256 + c.G,
            b |-> c.B * 256 + c.B, a |-> c.A * 256 + c.A]

\* Mutant of Shr8: the 16-bit channel is shifted by 9 bits.
Shr8_by9(x) == x \div 512
Shr8(x) == x \div 256
uint8(x) == x % 256

\* float64 values met in find_closest.  math.Sqrt(x) of an integer x is kept
\* as the non-negative real whose square is x: on the range reached here
\* (x <= 6 * 255^2) the correctly rounded square roots of distinct integers
\* are distinct and ordered as the integers are.  math.MaxFloat64 is above
\* all of them.
Sqrt(x) == [kind |-> "sqrt", sq |-> x]
\* Mutant of MaxFloat64: the running minimum starts at zero.
MaxFloat64_zero == Sqrt(0)
MaxFloat64 == [kind |-> "max", sq |-> 0]
\* Mutant of FloatLess: <= in place of <.
FloatLess_orEqual(a, b) ==
    IF a.kind = "max" THEN FALSE
    ELSE IF b.kind = "max" THEN TRUE
    ELSE a.sq <= b.sq
FloatLess(a, b) ==
    IF a.kind = "max" THEN FALSE
    ELSE IF b.kind = "max" THEN TRUE
    ELSE a.sq < b.sq
\* the float64 f is the integer n (n * n = f.sq, stated without the product)
FloatIsInt(f, n) ==
    /\ f.kind = "sqrt"
    /\ n >= 0
    /\ IF n = 0 THEN f.sq = 0 ELSE f.sq % n = 0 /\ f.sq \div n = n

\* the distance find_closest computes between colour c and palette entry pcolor
distance(c, pcolor) ==
    LET cc == RGBA(c)
        pp == RGBA(pcolor)
        distancer == Shr8(pp.r) - Shr8(cc.r)
        distanceg == Shr8(pp.g) - Shr8(cc.g)
        distanceb == Shr8(pp.b) - Shr8(cc.b)
    IN Sqrt(2 * distancer * distancer + 3 * distanceg * distanceg + 1 * distanceb * distanceb)

ZeroRGBA == [R |-> 0, G |-> 0, B |-> 0, A |-> 0]

RECURSIVE find_closest_loop(_, _, _, _, _)
find_closest_loop(c, pl, i, min_distance, closest) ==
    IF i > Len(pl) THEN closest
    ELSE LET d == distance(c, pl[i])
             pp == RGBA(pl[i])
         IN IF FloatLess(d, min_distance)
            THEN find_closest_loop(c, pl, i + 1, d,
                    [R |-> uint8(Shr8(pp.r)), G |-> uint8(Shr8(pp.g)),
                     B |-> uint8(Shr8(pp.b)), A |-> 255])
            ELSE find_closest_loop(c, pl, i + 1, min_distance, closest)

find_closest(c, pl) == find_closest_loop(c, pl, 1, MaxFloat64, ZeroRGBA)

(***************************************************************************)
(* Images, has_palette and remap's pixel loop.                             *)
(***************************************************************************)
Rect(im) == {<<x, y>> : x \in im.Min.X..(im.Max.X - 1), y \in im.Min.Y..(im.Max.Y - 1)}
At(im, x, y) == im.Pix[<<x, y>>]

RECURSIVE has_palette_loop(_, _, _, _)
has_palette_loop(im, pl, x, y) ==
    IF y >= im.Max.Y THEN TRUE
    ELSE IF x >= im.Max.X THEN has_palette_loop(im, pl, im.Min.X, y + 1)
    ELSE LET c == find_closest(At(im, x, y), pl)
             px == RGBA(At(im, x, y))
             rc == uint8(Shr8(px.r))
             gc == uint8(Shr8(px.g))
             bc == uint8(Shr8(px.b))
         IN IF rc # c.R \/ gc # c.G \/ bc # c.B
            THEN FALSE
            ELSE has_palette_loop(im, pl, x + 1, y)

\* Mutant of has_palette: returns after the first pixel.
has_palette_firstPixel(im, pl) ==
    LET c == find_closest(At(im, im.Min.X, im.Min.Y), pl)
        px == RGBA(At(im, im.Min.X, im.Min.Y))
    IN ~(uint8(Shr8(px.r)) # c.R \/ uint8(Shr8(px.g)) # c.G \/ uint8(Shr8(px.b)) # c.B)

has_palette(im, pl) == has_palette_loop(im, pl, im.Min.X, im.Min.Y)

\* image.NewRGBA(bounds): every pixel zero
NewRGBA(im) == [pos \in Rect(im) |-> ZeroRGBA]

RECURSIVE remap_loop(_, _, _, _, _)
remap_loop(im, pl, x, y, out) ==
    IF y >= im.Max.Y THEN out
    ELSE IF x >= im.Max.X THEN remap_loop(im, pl, im.Min.X, y + 1, out)
    ELSE remap_loop(im, pl, x + 1, y,
                    [out EXCEPT ![<<x, y>>] = find_closest(At(im, x, y), pl)])

remap_pixels(im, pl) == remap_loop(im, pl, im.Min.X, im.Min.Y, NewRGBA(im))

(***************************************************************************)
(* Paths.                                                                  *)
(***************************************************************************)
\* filepath.Ext(path): the suffix starting at the last dot of the last path
\* element, "" when that element has no dot.
RECURSIVE ExtLoop(_, _)
ExtLoop(path, i) ==
    IF i < 1 \/ path[i] = "/" THEN <<>>
    ELSE IF path[i] = "." THEN SubSeq(path, i, Len(path))
    ELSE ExtLoop(path, i - 1)

Ext(path) == ExtLoop(path, Len(path))

HasSuffix(s, suffix) ==
    Len(s) >= Len(suffix) /\ SubSeq(s, Len(s) - Len(suffix) + 1, Len(s)) = suffix

TrimSuffix(s, suffix) ==
    IF HasSuffix(s, suffix) THEN SubSeq(s, 1, Len(s) - Len(suffix)) ELSE s

DotPal == <<".", "p", "a", "l">>

(***************************************************************************)
(* Inputs.                                                                 *)
(***************************************************************************)
Black == [R |-> 0, G |-> 0, B |-> 0, A |-> 255]
Dim   == [R |-> 1, G |-> 0, B |-> 0, A |-> 128]
White == [R |-> 255, G |-> 255, B |-> 255, A |-> 255]
PixelColors == {Black, Dim, White}

Origins == {<<0, 0>>, <<1, 2>>}

\* An image of w x h pixels at origin o, of colour bg but for colour fg at pos.
Image(o, w, h, bg, pos, fg) ==
    [Min |-> [X |-> o[1], Y |-> o[2]],
     Max |-> [X |-> o[1] + w, Y |-> o[2] + h],
     Pix |-> [q \in {<<x, y>> : x \in o[1]..(o[1] + w - 1), y \in o[2]..(o[2] + h - 1)} |->
                 IF q = pos THEN fg ELSE bg]]

Images ==
    {Image(o, w, h, bg, <<o[1] + dx, o[2] + dy>>, fg) :
        o \in Origins, w \in 1..MaxW, h \in 1..MaxH,
        bg \in PixelColors, fg \in PixelColors, dx \in 0..(MaxW - 1), dy \in 0..(MaxH - 1)}

SmallImages == {Image(<<0, 0>>, 1, 1, c, <<0, 0>>, c) : c \in PixelColors}

\* Byte patterns of palette files: entries alternate between two colours, or
\* cycle through three.
BaseBW     == <<0, 0, 0, 255, 255, 255>>
BaseTie    == <<0, 0, 0, 2, 0, 0>>
BaseTieRev == <<2, 0, 0, 0, 0, 0>>
BaseMix    == <<1, 1, 0, 1, 0, 3, 9, 8, 7>>
Bases == {BaseBW, BaseTie, BaseTieRev, BaseMix}

PalLens == {0, 1, 100, (PALETTE_SIZE * 3) - 1} \cup
           ((PALETTE_SIZE * 3)..(PALETTE_SIZE * 3 + MaxExtra))

InputPal == <<"i", "n", ".", "p", "a", "l">>
GoodPals == {Reader(InputPal, Repeat(b, PALETTE_SIZE * 3)) : b \in Bases}
AllPals  == {Reader(InputPal, Repeat(b, n)) : b \in {BaseBW, BaseMix}, n \in PalLens}

OutPng == <<"o", ".", "p", "n", "g">>
DstPaths ==
    {OutPng,
     <<"o", ".", "j", "p", "g">>,
     <<"o", ".", "j", "p", "e", "g">>,
     <<"o", ".", "g", "i", "f">>,
     <<"o", ".", "P", "N", "G">>,
     <<"o", ".">>,
     <<"o">>,
     <<"d", ".", "x", "/", "o">>,
     <<"p", "n", "g">>}

NoGrid == [pos \in {} |-> ZeroRGBA]
Pending == [status |-> -1, err |-> "pending"]
Panicked(msg) == [status |-> -1, err |-> msg]
Return(status, err) == [status |-> status, err |-> err]
NoFile == [created |-> FALSE, encoded |-> "none"]

ErrUnsupported == "Output type is not a supported format"
ErrCustomOnly == "flag 'custom-only' reguires input color palettes"

(***************************************************************************)
(* remap(img, pal, dst_path)                                               *)
(***************************************************************************)
InitRemap ==
    /\ op = "remap"
    /\ pc = "load"
    /\ \/ /\ img \in Images
          /\ pal \in GoodPals
          /\ dst_path = OutPng
          /\ creatable = TRUE
       \/ /\ img \in SmallImages
          /\ pal \in AllPals
          /\ dst_path \in DstPaths
          /\ creatable \in BOOLEAN
    /\ p = <<>>
    /\ remappedf = NoFile
    /\ remapped = NoGrid
    /\ ret = Pending
    /\ custom_pals = <<>>
    /\ custom_only = FALSE
    /\ entries = <<>>
    /\ dir_read = FALSE
    /\ idx = 0
    /\ tested = <<>>
    /\ stdout = <<>>

\* p, err := load_palette(pal); if err != nil { return 1, err }
RemapLoad ==
    /\ op = "remap" /\ pc = "load"
    /\ \E r \in {load_palette(pal)} :
        /\ pal' = [pal EXCEPT !.pos = r.pos]
        /\ p' = r.palette
        /\ IF r.err # "nil"
           THEN pc' = "done" /\ ret' = Return(1, r.err)
           ELSE pc' = "create" /\ ret' = ret
    /\ UNCHANGED <<op, img, dst_path, creatable, remappedf, remapped>>
    /\ UNCHANGED identifyVars

\* remappedf, err := os.Create(dst_path); if err != nil { ...; return 1, err }
RemapCreate ==
    /\ op = "remap" /\ pc = "create"
    /\ IF creatable
       THEN /\ remappedf' = [created |-> TRUE, encoded |-> "none"]
            /\ pc' = "pixels"
            /\ ret' = ret
       ELSE /\ remappedf' = remappedf
            /\ pc' = "done"
            /\ ret' = Return(1, "create failed")
    /\ UNCHANGED <<op, img, pal, dst_path, creatable, p, remapped>>
    /\ UNCHANGED identifyVars

\* remapped := image.NewRGBA(bounds); the two pixel loops
RemapPixels ==
    /\ op = "remap" /\ pc = "pixels"
    /\ remapped' = remap_pixels(img, p)
    /\ pc' = "encode"
    /\ UNCHANGED <<op, img, pal, dst_path, creatable, p, remappedf, ret>>
    /\ UNCHANGED identifyVars

\* switch filepath.Ext(remappedf.Name())[1:] { ... }; s[1:] of an empty
\* string panics with "slice bounds out of range".
RemapEncode ==
    /\ op = "remap" /\ pc = "encode"
    /\ LET e == Ext(dst_path) IN
        IF Len(e) < 1
        THEN /\ ret' = Panicked("slice bounds out of range [1:0]")
             /\ remappedf' = remappedf
        ELSE LET t == SubSeq(e, 2, Len(e)) IN
             IF t = <<"p", "n", "g">>
             THEN /\ remappedf' = [remappedf EXCEPT !.encoded = "png"]
                  /\ ret' = Return(0, "nil")
             ELSE IF t = <<"j", "p", "g">> \/ t = <<"j", "p", "e", "g">>
             THEN /\ remappedf' = [remappedf EXCEPT !.encoded = "jpeg"]
                  /\ ret' = Return(0, "nil")
             ELSE /\ remappedf' = remappedf
                  /\ ret' = Return(2, ErrUnsupported)
    /\ pc' = "done"
    /\ UNCHANGED <<op, img, pal, dst_path, creatable, p, remapped>>
    /\ UNCHANGED identifyVars

NextRemap == RemapLoad \/ RemapCreate \/ RemapPixels \/ RemapEncode

SpecRemap == InitRemap /\ [][NextRemap]_vars

(***************************************************************************)
(* identify(img, custom_pals, custom_only)                                 *)
(***************************************************************************)
BoundedSeq(S, n) == UNION {[1..k -> S] : k \in 0..n}

\* Candidate palette files: two well-formed ones and a truncated one.
FileA == Reader(<<"a", ".", "p", "a", "l">>, Repeat(BaseBW, PALETTE_SIZE * 3))
FileB == Reader(<<"b", ".", "p", "a", "l">>, Repeat(BaseTie, PALETTE_SIZE * 3 + 1))
FileS == Reader(<<"s", ".", "p", "a", "l">>, Repeat(BaseBW, 100))
CustomFiles == {FileA, FileB, FileS}

\* Entries of the embedded directory: files, a sub-directory, a file that is no .pal
DirEntry(r, isDir) == [name |-> r.name, bytes |-> r.bytes, pos |-> 0, isDir |-> isDir]
DirEntries ==
    {DirEntry(FileA, FALSE), DirEntry(FileB, FALSE), DirEntry(FileS, FALSE),
     DirEntry(Reader(<<"d", ".", "p", "a", "l">>, <<>>), TRUE),
     DirEntry(Reader(<<"C", "O", "P", "Y">>, <<71, 80, 76>>), FALSE)}

\* Single-pixel images of each colour, and a black image with a last white pixel.
IdentifyImages ==
    SmallImages \cup {Image(<<1, 2>>, MaxW, MaxH, Black, <<MaxW, MaxH + 1>>, White)}

\* Either the custom palettes or the directory range over all bounded lists.
FewDirs == {<<>>, <<DirEntry(FileA, FALSE)>>,
            <<DirEntry(FileS, FALSE), DirEntry(FileA, FALSE)>>}
FewCustoms == {<<>>, <<FileB>>}

InitIdentify ==
    /\ op = "identify"
    /\ pc = "custom"
    /\ img \in IdentifyImages
    /\ \/ /\ custom_pals \in BoundedSeq(CustomFiles, MaxCustom)
          /\ entries \in FewDirs
       \/ /\ custom_pals \in FewCustoms
          /\ entries \in BoundedSeq(DirEntries, MaxBuiltin)
    /\ custom_only \in BOOLEAN
    /\ dir_read = FALSE
    /\ idx = 1
    /\ tested = <<>>
    /\ stdout = <<>>
    /\ ret = Pending
    /\ pal = Reader(InputPal, <<>>)
    /\ dst_path = OutPng
    /\ creatable = TRUE
    /\ p = <<>>
    /\ remappedf = NoFile
    /\ remapped = NoGrid

Tested(kind, i, err, verified) == [kind |-> kind, i |-> i, err |-> err, verified |-> verified]
MatchLine(name) == [msg |-> "The palette used in this image was:", name |-> TrimSuffix(name, DotPal)]
NoMatchLine == [msg |-> "No palette matches this image colorscheme", name |-> <<>>]

\* Mutant of IdentifyCustom: the loop goes on after a palette verified.
IdentifyCustom_noReturnOnMatch ==
    /\ op = "identify" /\ pc = "custom" /\ idx <= Len(custom_pals)
    /\ \E r \in {load_palette(custom_pals[idx])} :
       \E ok \in {r.err = "nil" /\ has_palette(img, r.palette)} :
        /\ custom_pals' = [custom_pals EXCEPT ![idx].pos = r.pos]
        /\ tested' = Append(tested, Tested("custom", idx, r.err, ok))
        /\ IF r.err # "nil"
           THEN /\ ret' = Return(1, r.err)
                /\ pc' = "done"
                /\ UNCHANGED <<idx, stdout>>
           ELSE IF ok
           THEN /\ stdout' = Append(stdout, MatchLine(custom_pals[idx].name))
                /\ idx' = idx + 1
                /\ UNCHANGED <<ret, pc>>
           ELSE /\ idx' = idx + 1
                /\ UNCHANGED <<ret, pc, stdout>>
    /\ UNCHANGED <<op, img, custom_only, entries, dir_read>>
    /\ UNCHANGED remapVars

\* Mutant of IdentifyCustom: a palette that fails to decode is skipped.
IdentifyCustom_skipMalformed ==
    /\ op = "identify" /\ pc = "custom" /\ idx <= Len(custom_pals)
    /\ \E r \in {load_palette(custom_pals[idx])} :
       \E ok \in {r.err = "nil" /\ has_palette(img, r.palette)} :
        /\ custom_pals' = [custom_pals EXCEPT ![idx].pos = r.pos]
        /\ tested' = Append(tested, Tested("custom", idx, r.err, ok))
        /\ IF r.err # "nil"
           THEN /\ idx' = idx + 1
                /\ UNCHANGED <<ret, pc, stdout>>
           ELSE IF ok
           THEN /\ stdout' = Append(stdout, MatchLine(custom_pals[idx].name))
                /\ ret' = Return(0, "nil")
                /\ pc' = "done"
                /\ UNCHANGED idx
           ELSE /\ idx' = idx + 1
                /\ UNCHANGED <<ret, pc, stdout>>
    /\ UNCHANGED <<op, img, custom_only, entries, dir_read>>
    /\ UNCHANGED remapVars

\* One iteration of "for _, pal := range custom_pals".
IdentifyCustom ==
    /\ op = "identify" /\ pc = "custom" /\ idx <= Len(custom_pals)
    /\ \E r \in {load_palette(custom_pals[idx])} :
       \E ok \in {r.err = "nil" /\ has_palette(img, r.palette)} :
        /\ custom_pals' = [custom_pals EXCEPT ![idx].pos = r.pos]
        /\ tested' = Append(tested, Tested("custom", idx, r.err, ok))
        /\ IF r.err # "nil"
           THEN /\ ret' = Return(1, r.err)
                /\ pc' = "done"
                /\ UNCHANGED <<idx, stdout>>
           ELSE IF ok
           THEN /\ stdout' = Append(stdout, MatchLine(custom_pals[idx].name))
                /\ ret' = Return(0, "nil")
                /\ pc' = "done"
                /\ UNCHANGED idx
           ELSE /\ idx' = idx + 1
                /\ UNCHANGED <<ret, pc, stdout>>
    /\ UNCHANGED <<op, img, custom_only, entries, dir_read>>
    /\ UNCHANGED remapVars

\* Mutant of IdentifyCustomEnd: custom_only with no custom palette falls
\* through to the built-in palettes.
IdentifyCustomEnd_noUsageError ==
    /\ op = "identify" /\ pc = "custom" /\ idx > Len(custom_pals)
    /\ IF custom_only /\ Len(custom_pals) > 0
       THEN /\ ret' = Return(0, "nil")
            /\ pc' = "done"
            /\ UNCHANGED <<idx, dir_read>>
       ELSE /\ dir_read' = TRUE
            /\ idx' = 1
            /\ pc' = "builtin"
            /\ UNCHANGED ret
    /\ UNCHANGED <<op, img, custom_pals, custom_only, entries, tested, stdout>>
    /\ UNCHANGED remapVars

\* After the custom loop: the custom_only tests, then fs.ReadDir(palettes, "palettes").
\* The directory and its files are embedded in the binary, so ReadDir and
\* palettes.Open succeed.
IdentifyCustomEnd ==
    /\ op = "identify" /\ pc = "custom" /\ idx > Len(custom_pals)
    /\ IF custom_only /\ Len(custom_pals) > 0
       THEN /\ ret' = Return(0, "nil")
            /\ pc' = "done"
            /\ UNCHANGED <<idx, dir_read>>
       ELSE IF custom_only
       THEN /\ ret' = Return(2, ErrCustomOnly)
            /\ pc' = "done"
            /\ UNCHANGED <<idx, dir_read>>
       ELSE /\ dir_read' = TRUE
            /\ idx' = 1
            /\ pc' = "builtin"
            /\ UNCHANGED ret
    /\ UNCHANGED <<op, img, custom_pals, custom_only, entries, tested, stdout>>
    /\ UNCHANGED remapVars

\* One iteration of "for _, entry := range entries".
IdentifyBuiltin ==
    /\ op = "identify" /\ pc = "builtin" /\ idx <= Len(entries)
    /\ LET entry == entries[idx]
           filename == entry.name
       IN
        IF entry.isDir \/ Ext(filename) # DotPal
        THEN /\ idx' = idx + 1
             /\ UNCHANGED <<entries, tested, stdout, ret, pc>>
        ELSE \E r \in {load_palette(entry)} :
             \E ok \in {r.err = "nil" /\ has_palette(img, r.palette)} :
              /\ entries' = [entries EXCEPT ![idx].pos = r.pos]
              /\ tested' = Append(tested, Tested("builtin", idx, r.err, ok))
              /\ IF r.err # "nil"
                 THEN /\ ret' = Return(1, r.err)
                      /\ pc' = "done"
                      /\ UNCHANGED <<idx, stdout>>
                 ELSE IF ok
                 THEN /\ stdout' = Append(stdout, MatchLine(filename))
                      /\ ret' = Return(0, "nil")
                      /\ pc' = "done"
                      /\ UNCHANGED idx
                 ELSE /\ idx' = idx + 1
                      /\ UNCHANGED <<ret, pc, stdout>>
    /\ UNCHANGED <<op, img, custom_pals, custom_only, dir_read>>
    /\ UNCHANGED remapVars

\* println("No palette matches this image colorscheme"); return 0, nil
IdentifyNoMatch ==
    /\ op = "identify" /\ pc = "builtin" /\ idx > Len(entries)
    /\ stdout' = Append(stdout, NoMatchLine)
    /\ ret' = Return(0, "nil")
    /\ pc' = "done"
    /\ UNCHANGED <<op, img, custom_pals, custom_only, entries, dir_read, idx, tested>>
    /\ UNCHANGED remapVars

NextIdentify == IdentifyCustom \/ IdentifyCustomEnd \/ IdentifyBuiltin \/ IdentifyNoMatch

SpecIdentify == InitIdentify /\ [][NextIdentify]_vars

Init == InitIdentify \/ InitRemap
Next == NextIdentify \/ NextRemap
Spec == Init /\ [][Next]_vars

(***************************************************************************)
(* Properties of remap, has_palette, find_closest and load_palette.        *)
(***************************************************************************)
SameRGB(a, b) == a.R = b.R /\ a.G = b.G /\ a.B = b.B

\* 2*(Ar-Br)^2 + 3*(Ag-Bg)^2 + 1*(Ab-Bb)^2 over the 8-bit channel values
Weighted(a, b) ==
    2 * (a.R - b.R) * (a.R - b.R) + 3 * (a.G - b.G) * (a.G - b.G) + 1 * (a.B - b.B) * (a.B - b.B)

AfterPixelLoop == op = "remap" /\ pc = "encode"

\* C1: has_palette(image, p) is true exactly when the grid produced by remap's
\* pixel loop for (image, p) has, at every position of the image's bounds, the
\* R, G and B of the input pixel at that position.
C1_VerifierRemapConsistency ==
    AfterPixelLoop =>
        (has_palette(img, p) <=> \A pos \in Rect(img) : SameRGB(remapped[pos], img.Pix[pos]))

C1_Witness ==
    /\ AfterPixelLoop
    /\ img.Min.X # 0
    /\ Cardinality(Rect(img)) > 1
    /\ \E a, b \in Rect(img) : img.Pix[a] # img.Pix[b]
    /\ has_palette(img, p)

\* C2: every pixel of the image produced by remap, at every position of the
\* input's bounds (zero-based or not), has the R, G, B of some entry of the
\* decoded palette and alpha 255; the zero-valued initial colour of
\* find_closest (alpha 0) is never what it returns.
C2_RemapClosure ==
    AfterPixelLoop =>
        /\ DOMAIN remapped = Rect(img)
        /\ \A pos \in Rect(img) :
            /\ remapped[pos].A = 255
            /\ remapped[pos] # ZeroRGBA
            /\ \E i \in 1..Len(p) : SameRGB(remapped[pos], p[i])

C2_Witness ==
    /\ AfterPixelLoop
    /\ img.Min.X # 0 /\ img.Min.Y # 0
    /\ \E pos \in Rect(img) : img.Pix[pos].A # 255 /\ ~SameRGB(remapped[pos], img.Pix[pos])

\* C3: find_closest(c, p) returns the channel values of the entry with the
\* lowest palette index among the entries at minimum weighted distance to c.
C3_FirstMinimumWins ==
    AfterPixelLoop =>
        \A pos \in Rect(img) :
            LET c == img.Pix[pos] IN
            \E i \in 1..Len(p) :
                /\ \A j \in 1..Len(p) : Weighted(c, p[i]) <= Weighted(c, p[j])
                /\ \A j \in 1..(i - 1) : Weighted(c, p[j]) > Weighted(c, p[i])
                /\ SameRGB(remapped[pos], p[i])

\* a pixel at the same distance from two entries of different colour
C3_Witness ==
    /\ AfterPixelLoop
    /\ \E pos \in Rect(img) : \E i, j \in 1..Len(p) :
        /\ i < j
        /\ ~SameRGB(p[i], p[j])
        /\ Weighted(img.Pix[pos], p[i]) = Weighted(img.Pix[pos], p[j])
        /\ \A k \in 1..Len(p) : Weighted(img.Pix[pos], p[i]) <= Weighted(img.Pix[pos], p[k])
        /\ SameRGB(remapped[pos], p[i])

\* C4: load_palette on a source of fewer than 192 bytes (zero included)
\* returns an error and the nil palette; on 192 bytes or more it returns 64
\* entries, entry i being (byte 3i, byte 3i+1, byte 3i+2, 255), and leaves the
\* source's offset at 192.
C4_LoadPalette ==
    (op = "remap" /\ pc # "load") =>
        IF Len(pal.bytes) < PALETTE_SIZE * 3
        THEN /\ p = <<>>
             /\ pc = "done"
             /\ ret.status = 1 /\ ret.err \in {"EOF", "unexpected EOF"}
             /\ pal.pos <= Len(pal.bytes)
        ELSE /\ Len(p) = PALETTE_SIZE
             /\ \A i \in 0..(PALETTE_SIZE - 1) :
                    p[i + 1] = [R |-> pal.bytes[3 * i + 1], G |-> pal.bytes[3 * i + 2],
                                B |-> pal.bytes[3 * i + 3], A |-> 255]
             /\ pal.pos = PALETTE_SIZE * 3

C4_Witness ==
    /\ op = "remap" /\ pc = "done"
    /\ Len(pal.bytes) = PALETTE_SIZE * 3 - 1
    /\ ret.err = "unexpected EOF"

C4_WitnessLong ==
    /\ op = "remap" /\ pc = "create"
    /\ Len(pal.bytes) > PALETTE_SIZE * 3
    /\ Len(p) = PALETTE_SIZE

\* C9: the distance find_closest computes and compares is
\* 2*(Ar-Br)^2 + 3*(Ag-Bg)^2 + 1*(Ab-Bb)^2, with no square root applied.
C9_DistanceIsWeightedSquare ==
    (op = "remap" /\ pc = "create") =>
        \A pos \in Rect(img) : \A i \in 1..Len(p) :
            FloatIsInt(distance(img.Pix[pos], p[i]), Weighted(img.Pix[pos], p[i]))

\* the extension of path is none of png, jpg, jpeg (or path has no extension)
UnsupportedOutput(path) ==
    LET e == Ext(path) IN
    \/ e = <<>>
    \/ SubSeq(e, 2, Len(e)) \notin {<<"p", "n", "g">>, <<"j", "p", "g">>, <<"j", "p", "e", "g">>}

\* C10: for every output path whose extension is not png, jpg or jpeg (a path
\* with no extension included), remap, given a well-formed palette and a
\* creatable path, returns the unsupported-format error with status 2 and
\* encodes nothing into the output file.
C10_UnsupportedOutputIsError ==
    (op = "remap" /\ pc = "done" /\ Len(pal.bytes) >= PALETTE_SIZE * 3
        /\ creatable /\ UnsupportedOutput(dst_path)) =>
        /\ ret = Return(2, ErrUnsupported)
        /\ remappedf.encoded = "none"

(***************************************************************************)
(* Properties of identify.                                                 *)
(***************************************************************************)
IsPalFile(entry) == ~entry.isDir /\ Ext(entry.name) = DotPal

\* The candidates in priority order: the custom palettes as supplied, then
\* the palette files of the directory in directory order.
CandOrder ==
    [k \in 1..Len(custom_pals) |-> [kind |-> "custom", i |-> k]] \o
    SelectSeq([k \in 1..Len(entries) |-> [kind |-> "builtin", i |-> k]],
              LAMBDA c : IsPalFile(entries[c.i]))

CandFile(c) == IF c.kind = "custom" THEN custom_pals[c.i] ELSE entries[c.i]

\* the candidate's bytes decode and the decoded palette verifies the image
Verifies(c) ==
    Len(CandFile(c).bytes) >= PALETTE_SIZE * 3 /\
    has_palette(img, load_palette(Reader(CandFile(c).name, CandFile(c).bytes)).palette)

IsMatchLine(line) == line.msg = "The palette used in this image was:"
Reported == op = "identify" /\ \E k \in 1..Len(stdout) : IsMatchLine(stdout[k])

C5_WitnessBuiltin ==
    /\ Reported
    /\ Len(tested) >= 2 /\ tested[Len(tested)].kind = "builtin" /\ tested[Len(tested)].i = 2
    /\ Len(custom_pals) >= 1

\* C6: with custom_only set, no built-in palette is read, decoded or reported;
\* and with custom_only set and no custom palette identify returns the
\* missing-candidate usage error with status 2.
C6_CustomOnly ==
    (op = "identify" /\ custom_only) =>
        /\ ~dir_read
        /\ pc # "builtin"
        /\ \A k \in 1..Len(tested) : tested[k].kind = "custom"
        /\ \A k \in 1..Len(entries) : entries[k].pos = 0
        /\ (Len(custom_pals) = 0 /\ pc = "done") =>
               ret = Return(2, ErrCustomOnly) /\ stdout = <<>>

C6_Witness ==
    /\ op = "identify" /\ custom_only /\ pc = "done"
    /\ Len(custom_pals) = 0
    /\ \E k \in 1..Len(entries) : IsPalFile(entries[k]) /\ Verifies([kind |-> "builtin", i |-> k])
    /\ ret.status = 2

\* every candidate of the run decodes and none verifies the image
NoneVerifies ==
    \A k \in 1..Len(CandOrder) :
        /\ Len(CandFile(CandOrder[k]).bytes) >= PALETTE_SIZE * 3
        /\ ~Verifies(CandOrder[k])

\* C7: in every mode, when every candidate decodes and none verifies,
\* identify finishes with status 0, a nil error and the "no match" report; it
\* never finishes successfully without a matched palette or "no match" reported.
C7_NoMatchIsReported ==
    (op = "identify" /\ pc = "done") =>
        /\ (ret = Return(0, "nil")) => Len(stdout) = 1
        /\ (Len(custom_pals) > 0 /\ NoneVerifies) =>
               ret = Return(0, "nil") /\ stdout = <<NoMatchLine>>

\* C8: when the candidate identify has reached fails to decode, identify
\* returns status 1 with the decode error at that point: the candidate is
\* not skipped, no later candidate is decoded or tested, nothing is reported.
C8_DecodeFailureIsFatal ==
    op = "identify" =>
        \A k \in 1..Len(tested) :
            /\ tested[k].err # "nil" <=> Len(CandFile(CandOrder[k]).bytes) < PALETTE_SIZE * 3
            /\ tested[k].err # "nil" =>
                /\ k = Len(tested)
                /\ pc = "done"
                /\ ret = Return(1, tested[k].err)
                /\ stdout = <<>>
                /\ \A j \in (k + 1)..Len(CandOrder) : CandFile(CandOrder[j]).pos = 0

\* a truncated palette is reached after a well-formed one, before one that would verify
C8_Witness ==
    /\ op = "identify" /\ pc = "done"
    /\ ret.status = 1
    /\ Len(tested) >= 2
    /\ Len(CandOrder) > Len(tested)
    /\ Verifies(CandOrder[Len(tested) + 1])

(***************************************************************************)
(* Idempotence of the nearest-colour projection.                           *)
(***************************************************************************)
\* remap on two well-formed palettes (one with entries at equal distance from
\* a pixel, one of three colours; both repeat their entries) with a creatable
\* png output: runs in which the pixel loop is reached and the output encoded.
InitProjection ==
    /\ InitRemap
    /\ pal.bytes \in {Repeat(BaseTie, PALETTE_SIZE * 3), Repeat(BaseMix, PALETTE_SIZE * 3)}
    /\ dst_path = OutPng
    /\ creatable

SpecProjection == InitProjection /\ [][NextRemap]_vars

\* the grid produced by remap's pixel loop, as an image of the same bounds
RemappedImage == [Min |-> img.Min, Max |-> img.Max, Pix |-> remapped]

\* C11: for every colour c and palette p (duplicate entries included),
\* find_closest(find_closest(c, p), p) has the R, G, B of find_closest(c, p);
\* has_palette of the grid produced by remap's pixel loop with p is true, and
\* remapping that grid again with p leaves it unchanged.
C11_ProjectionIdempotent ==
    AfterPixelLoop =>
        /\ \A c \in {img.Pix[pos] : pos \in Rect(img)} :
               \E e \in {find_closest(c, p)} : SameRGB(find_closest(e, p), e)
        /\ has_palette(RemappedImage, p)
        /\ remap_pixels(RemappedImage, p) = remapped

\* a pixel that the projection moves, onto an entry the palette holds more than once
C11_Witness ==
    /\ AfterPixelLoop
    /\ Cardinality(Rect(img)) > 1
    /\ \E pos \in Rect(img) :
        /\ ~SameRGB(remapped[pos], img.Pix[pos])
        /\ \E i, j \in 1..Len(p) :
               i < j /\ SameRGB(p[i], remapped[pos]) /\ SameRGB(p[j], remapped[pos])
    /\ ~has_palette(img, p)

====
